---- MODULE Spec2Model ----
(***************************************************************************)
(* Model of src/raw/vectorutils.py: validate_vector, rec, pol, add_cartes. *)
(*                                                                         *)
(* Python objects live in a heap (a sequence of objects; a reference is an *)
(* index into it), so that "the same object" and "a new object" differ.    *)
(* An object is a record [type, items]: a list of numbers, a text string   *)
(* (items are its code points), a non-iterable int, a bool or None.        *)
(*                                                                         *)
(* Python indexes from 0, TLA+ from 1: vector[0] is items[1].              *)
(*                                                                         *)
(* The numbers of rec and pol are floats. They are modelled in fixed       *)
(* point: the integer n stands for the real n / Scale (1.0 is Scale, 90    *)
(* degrees is 90 * Scale). Lengths agree with the floats to 0.002 and      *)
(* angles to 0.03 degree on the inputs checked; 0, 1, 90 and 180 degrees   *)
(* are exact. add_cartes only adds, so its operands are plain integers.    *)
(***************************************************************************)
EXTENDS Integers, Sequences, FiniteSets

VARIABLES
    fn,        \* the function being called
    heap,      \* the objects that exist: heap[ref]
    args,      \* the positional arguments: a sequence of references
    flag,      \* the keyword argument: throwerr, physics or fixdim
    pc,        \* "call" before the call, "done" after, "mutated" after the
               \* caller changed the returned list in place
    result,    \* reference of the returned object, 0 when nothing returned
    raised,    \* the exception that escaped the call, "none" when none did
    pre,       \* the heap as it was when the call started
    origin     \* round trip: reference of the v given to pol, else 0

vars == <<fn, heap, args, flag, pc, result, raised, pre, origin>>

----------------------------------------------------------------------------
(* Bounds of the checked inputs. *)

\* most positional arguments of one add_cartes call
MaxArgs == 3
\* longest sequence or string passed in
MaxLen == 4
\* Cartesian coordinates given to pol range over -MaxCoord .. MaxCoord
MaxCoord == 2

----------------------------------------------------------------------------
(* Python objects. *)

List(s) == [type |-> "list", items |-> s]
Str(n) == [type |-> "str", items |-> [i \in 1..n |-> 96 + i]]
PyInt(k) == [type |-> "int", items |-> <<k>>]
PyTrue == [type |-> "bool", items |-> <<1>>]
PyFalse == [type |-> "bool", items |-> <<0>>]
PyNone == [type |-> "NoneType", items |-> <<>>]

\* isinstance(obj, Iterable)
IsIterable(obj) == obj.type \in {"list", "str"}

\* len(obj)
len(obj) == Len(obj.items)

\* The outcome of evaluating a call: a value, or an exception.
Return(v) == [val |-> v, exc |-> "none"]
Raise(e) == [val |-> PyNone, exc |-> e]

----------------------------------------------------------------------------
(* validate_vector *)

\* BUG VARIANT: the upper bound of the length is off by one (<= 4).
validate_vector_le4(obj, throwerr) ==
    IF IsIterable(obj) /\ obj.type # "str" /\ 1 < len(obj) /\ len(obj) <= 4
    THEN Return(PyTrue)
    ELSE IF throwerr THEN Raise("TypeError") ELSE Return(PyFalse)

\* BUG VARIANT: the str exclusion is left out.
validate_vector_nostr(obj, throwerr) ==
    IF IsIterable(obj) /\ 1 < len(obj) /\ len(obj) < 4
    THEN Return(PyTrue)
    ELSE IF throwerr THEN Raise("TypeError") ELSE Return(PyFalse)

validate_vector(obj, throwerr) ==
    IF IsIterable(obj) /\ obj.type # "str" /\ 1 < len(obj) /\ len(obj) < 4
    THEN Return(PyTrue)
    ELSE IF throwerr THEN Raise("TypeError") ELSE Return(PyFalse)

----------------------------------------------------------------------------
(* Float arithmetic in fixed point. *)

\* One unit of a modelled float is 1 / Scale.
Scale == 10 * 10 * 10
\* The trigonometric series are summed in units of 1 / TrigScale.
TrigScale == 10 * Scale
\* pi in units of 1 / TrigScale
PiTrig == 31416
\* 180 degrees and 360 degrees in units of 1 / Scale degree
Deg90 == 90 * Scale
Deg180 == 180 * Scale
Deg360 == 360 * Scale

Abs(a) == IF a < 0 THEN -a ELSE a

\* a / b rounded to the nearest integer, b # 0
RoundDiv(a, b) ==
    LET n == IF b < 0 THEN -a ELSE a
        d == Abs(b)
    IN  (n + d \div 2) \div d

\* x / y on numbers (Python true division); the caller checks y # 0. The
\* quotient is only ever passed on to atan or acos, and is kept in units of
\* 1 / TrigScale.
TrueDiv(x, y) == RoundDiv(x * TrigScale, y)

\* x * y and x ** 2 on floats
Mul(x, y) == RoundDiv(x * y, Scale)


\* floor of the square root of n, found by bisection: lo * lo <= n < hi * hi
RECURSIVE IsqrtBetween(_, _, _)
IsqrtBetween(n, lo, hi) ==
    IF hi - lo <= 1 THEN lo
    ELSE LET mid == (lo + hi) \div 2
         IN  IF mid * mid <= n THEN IsqrtBetween(n, mid, hi)
             ELSE IsqrtBetween(n, lo, mid)

\* math.sqrt(x), x >= 0, correctly rounded
sqrt(x) ==
    LET n == x * Scale
        r == IsqrtBetween(n, 0, 46340)
    IN  IF n - r * r > r THEN r + 1 ELSE r

\* sin and cos of an angle a of 0 .. 45 degrees, by their Taylor series;
\* a in units of 1 / Scale degree, the value in units of 1 / TrigScale
SinSeries(a) ==
    LET x  == RoundDiv(a * PiTrig, 180 * Scale)
        x2 == RoundDiv(x * x, TrigScale)
        t3 == RoundDiv(x * x2, TrigScale)
        t5 == RoundDiv(t3 * x2, TrigScale)
        t7 == RoundDiv(t5 * x2, TrigScale)
    IN  x - RoundDiv(t3, 6) + RoundDiv(t5, 120) - RoundDiv(t7, 5040)

CosSeries(a) ==
    LET x  == RoundDiv(a * PiTrig, 180 * Scale)
        x2 == RoundDiv(x * x, TrigScale)
        x4 == RoundDiv(x2 * x2, TrigScale)
        x6 == RoundDiv(x4 * x2, TrigScale)
        x8 == RoundDiv(x6 * x2, TrigScale)
    IN  TrigScale - RoundDiv(x2, 2) + RoundDiv(x4, 24) - RoundDiv(x6, 720)
            + RoundDiv(x8, 40320)

\* sin of an angle of 0 .. 90 degrees
SinQuadrant(a) ==
    IF a <= Deg90 \div 2 THEN SinSeries(a) ELSE CosSeries(Deg90 - a)

\* sin(radians(a)) in units of 1 / TrigScale, a any angle in 1 / Scale degree
SinTrig(a) ==
    LET m == a % Deg360
        h == IF m >= Deg180 THEN m - Deg180 ELSE m
        q == IF h > Deg90 THEN Deg180 - h ELSE h
    IN  IF m >= Deg180 THEN -SinQuadrant(q) ELSE SinQuadrant(q)

CosTrig(a) == SinTrig(a + Deg90)

\* sin(radians(a)) and cos(radians(a))
sin_radians(a) == RoundDiv(SinTrig(a), TrigScale \div Scale)
cos_radians(a) == RoundDiv(CosTrig(a), TrigScale \div Scale)

\* The function of the angle a whose zero is looked for: sin a - t cos a for
\* the arctangent of t, c - cos a for the arccosine of c. Both increase with
\* a over the range searched.
AngleError(inverse, t, a) ==
    IF inverse = "atan" THEN SinTrig(a) * TrigScale - t * CosTrig(a)
    ELSE t - CosTrig(a)

\* The smallest a in lo+1 .. hi where AngleError is positive (strict) or
\* not negative (not strict), by bisection.
RECURSIVE FirstAngle(_, _, _, _, _)
FirstAngle(inverse, t, strict, lo, hi) ==
    IF hi - lo <= 1 THEN hi
    ELSE LET mid == (lo + hi) \div 2
             e == AngleError(inverse, t, mid)
         IN  IF (strict /\ e > 0) \/ (~strict /\ e >= 0)
             THEN FirstAngle(inverse, t, strict, lo, mid)
             ELSE FirstAngle(inverse, t, strict, mid, hi)

\* degrees(atan(t)), t in units of 1 / TrigScale: the angle in -90 .. 90
\* degrees whose tangent is t. The angles where the error rounds to 0 form
\* an interval; its middle is taken, so that atan(0) is 0 exactly.
degrees_atan(t) ==
    LET first == FirstAngle("atan", t, FALSE, -Deg90, Deg90)
        last  == FirstAngle("atan", t, TRUE, -Deg90, Deg90) - 1
    IN  (first + last) \div 2

\* degrees(acos(c)) for -1 <= c <= 1, c in units of 1 / TrigScale: the
\* angle in 0 .. 180 degrees whose cosine is c; acos(1) is 0 and acos(-1)
\* is 180 degrees exactly.
degrees_acos(c) ==
    IF c = TrigScale THEN 0
    ELSE IF c = -TrigScale THEN Deg180
    ELSE LET first == FirstAngle("acos", c, FALSE, 0, Deg180)
             last  == FirstAngle("acos", c, TRUE, 0, Deg180) - 1
         IN  (first + last) \div 2

----------------------------------------------------------------------------
(* rec and pol. Both return a new list, or raise. *)

IsTrue(r) == r.exc = "none" /\ r.val = PyTrue

\* BUG VARIANT: the physics flag is ignored, the math order is always used.
rec_nophysics(vector, physics) ==
    IF ~IsTrue(validate_vector(vector, FALSE)) THEN Return(List(<<>>))
    ELSE LET v == vector.items IN
         IF len(vector) = 2
         THEN Return(List(<<Mul(v[1], cos_radians(v[2])),
                            Mul(v[1], sin_radians(v[2]))>>))
         ELSE LET inclin == v[3]
                  azimuth == v[2]
              IN  Return(List(
                    <<Mul(Mul(v[1], sin_radians(inclin)), cos_radians(azimuth)),
                      Mul(Mul(v[1], sin_radians(inclin)), sin_radians(azimuth)),
                      Mul(v[1], cos_radians(inclin))>>))

rec(vector, physics) ==
    IF ~IsTrue(validate_vector(vector, FALSE)) THEN Return(List(<<>>))
    ELSE LET v == vector.items IN
         IF len(vector) = 2
         THEN Return(List(<<Mul(v[1], cos_radians(v[2])),
                            Mul(v[1], sin_radians(v[2]))>>))
         ELSE LET inclin == IF physics THEN v[2] ELSE v[3]
                  azimuth == IF physics THEN v[3] ELSE v[2]
              IN  Return(List(
                    <<Mul(Mul(v[1], sin_radians(inclin)), cos_radians(azimuth)),
                      Mul(Mul(v[1], sin_radians(inclin)), sin_radians(azimuth)),
                      Mul(v[1], cos_radians(inclin))>>))

\* BUG VARIANT: y >= 0 instead of y > 0 on the x == 0 branch.
zero_x_angle_ge(y) == IF y >= 0 THEN Deg90 ELSE -Deg90

\* 90 if vector[1] > 0 else -90
zero_x_angle(y) == IF y > 0 THEN Deg90 ELSE -Deg90

\* the angle of (x, y) from the x axis: the x == 0 rule, else the
\* one-argument arctangent of y / x
plane_angle(x, y) ==
    IF x = 0 THEN zero_x_angle(y) ELSE degrees_atan(TrueDiv(y, x))

pol(vector, physics) ==
    IF ~IsTrue(validate_vector(vector, FALSE)) THEN Return(List(<<>>))
    ELSE LET v == vector.items IN
         IF len(vector) = 2
         THEN Return(List(<<sqrt(Mul(v[1], v[1]) + Mul(v[2], v[2])),
                            plane_angle(v[1], v[2])>>))
         ELSE LET r == sqrt(Mul(v[1], v[1]) + Mul(v[2], v[2]) + Mul(v[3], v[3]))
                  azimuth == plane_angle(v[1], v[2])
              IN  IF r = 0 THEN Raise("ZeroDivisionError")
                  ELSE IF Abs(TrueDiv(v[3], r)) > TrigScale THEN Raise("ValueError")
                  ELSE LET inclination == degrees_acos(TrueDiv(v[3], r))
                       IN  IF physics
                           THEN Return(List(<<r, inclination, azimuth>>))
                           ELSE Return(List(<<r, azimuth, inclination>>))

----------------------------------------------------------------------------
(* add_cartes. It works on the heap: it returns [heap, ret, exc], the heap *)
(* after the call, the reference returned (0 if none) and the exception    *)
(* that escaped ("none" if none).                                           *)

\* DimensionError comes from linagb_error, which is not among the sources;
\* all that is used of it is that it is an exception the except clause names.
DimensionError == "DimensionError"

Ok(h, ref) == [heap |-> h, ret |-> ref, exc |-> "none"]
Fail(h, e) == [heap |-> h, ret |-> 0, exc |-> e]

\* BUG VARIANT: the sum is accumulated in the first operand itself.
new_result_alias(h, a, base_dim) == [heap |-> h, ref |-> a[1]]

\* result = [0, 0] if base_dim == 2 else [0, 0, 0]
new_result(h, a, base_dim) ==
    [heap |-> Append(h, List(IF base_dim = 2 THEN <<0, 0>> ELSE <<0, 0, 0>>)),
     ref |-> Len(h) + 1]

\* BUG VARIANT: fixdim is not consulted.
dimension_mismatch_nofix(v, base_dim, fixdim) == len(v) # base_dim

\* len(v) != base_dim and not fixdim
dimension_mismatch(v, base_dim, fixdim) == len(v) # base_dim /\ ~fixdim

\* BUG VARIANT: y is added to the x component.
accumulate_typo(h, res, v, base_dim) ==
    LET h1 == [h EXCEPT ![res].items[1] = @ + v.items[1]]
        h2 == [h1 EXCEPT ![res].items[1] = @ + v.items[2]]
    IN  IF base_dim = len(v) /\ len(v) = 3
        THEN [h2 EXCEPT ![res].items[3] = @ + v.items[3]]
        ELSE h2

\* result[0] += v[0]; result[1] += v[1]; and result[2] += v[2] when
\* base_dim == len(v) == 3
accumulate(h, res, v, base_dim) ==
    LET h1 == [h EXCEPT ![res].items[1] = @ + v.items[1]]
        h2 == [h1 EXCEPT ![res].items[2] = @ + v.items[2]]
    IN  IF base_dim = len(v) /\ len(v) = 3
        THEN [h2 EXCEPT ![res].items[3] = @ + v.items[3]]
        ELSE h2

\* for v in args: ..., from the i-th argument on
RECURSIVE add_loop(_, _, _, _, _, _)
add_loop(h, a, i, base_dim, res, fixdim) ==
    IF i > Len(a) THEN Ok(h, res)
    ELSE LET v == h[a[i]] IN
         IF validate_vector(v, TRUE).exc # "none"
         THEN Fail(h, validate_vector(v, TRUE).exc)
         ELSE IF dimension_mismatch(v, base_dim, fixdim)
         THEN Fail(h, DimensionError)
         ELSE add_loop(accumulate(h, res, v, base_dim), a, i + 1, base_dim,
                       res, fixdim)

\* the body of the try statement
add_cartes_try(h, a, fixdim) ==
    IF Len(a) = 1
    THEN IF validate_vector(h[a[1]], TRUE).exc # "none"
         THEN Fail(h, validate_vector(h[a[1]], TRUE).exc)
         ELSE Ok(h, a[1])
    ELSE IF Len(a) = 0 THEN Fail(h, "IndexError")
    ELSE IF validate_vector(h[a[1]], TRUE).exc # "none"
         THEN Fail(h, validate_vector(h[a[1]], TRUE).exc)
         ELSE LET base_dim == len(h[a[1]])
                  new == new_result(h, a, base_dim)
              IN  add_loop(new.heap, a, 1, base_dim, new.ref, fixdim)

\* except (TypeError, DimensionError): return []
add_cartes(h, a, fixdim) ==
    LET body == add_cartes_try(h, a, fixdim) IN
    IF body.exc \in {"TypeError", DimensionError}
    THEN Ok(Append(body.heap, List(<<>>)), Len(body.heap) + 1)
    ELSE body

----------------------------------------------------------------------------
(* The calls that are checked. *)

\* all sequences of length n over S
SeqsOf(S, n) == [1..n -> S]

\* objects validate_vector rejects: lists of a wrong length, text strings
\* of every length, and a non-iterable
WrongLengths == (0..MaxLen) \ {2, 3}
InvalidObjects ==
    {List([i \in 1..n |-> 1]) : n \in WrongLengths}
        \cup {Str(n) : n \in 0..MaxLen} \cup {PyInt(5)}

\* Cartesian vectors given to pol
Coords == {k * Scale : k \in -MaxCoord..MaxCoord}
CartesianVectors == {List(s) : s \in SeqsOf(Coords, 2) \cup SeqsOf(Coords, 3)}

\* polar and spherical vectors given to rec: angles in steps of 45 degrees
Radii == {k * Scale : k \in 0..MaxCoord}
Angles == {k * (Deg90 \div 2) : k \in -2..4}
PolarVectors ==
    {List(<<r, a>>) : r \in Radii, a \in Angles}
        \cup {List(<<r, a, b>>) : r \in Radii, a \in Angles, b \in Angles}

\* operands of add_cartes: integer vectors, and some invalid objects
AddElems == {-1, MaxCoord}
AddOperands ==
    {List(s) : s \in SeqsOf(AddElems, 2) \cup SeqsOf(AddElems, 3)}
        \cup {List([i \in 1..n |-> 1]) : n \in WrongLengths}
        \cup {Str(2), Str(3), PyInt(5)}
AddArgLists == UNION {SeqsOf(AddOperands, n) : n \in 0..MaxArgs}

Calls ==
    [fn : {"validate_vector"},
     objs : {<<o>> : o \in InvalidObjects \cup CartesianVectors},
     flag : BOOLEAN]
    \cup [fn : {"rec"},
          objs : {<<o>> : o \in InvalidObjects \cup PolarVectors},
          flag : BOOLEAN]
    \cup [fn : {"pol"},
          objs : {<<o>> : o \in InvalidObjects \cup CartesianVectors},
          flag : BOOLEAN]
    \cup [fn : {"add_cartes"}, objs : AddArgLists, flag : BOOLEAN]

\* The caller has built the argument objects; the call is about to start.
Init ==
    \E c \in Calls :
        /\ fn = c.fn
        /\ heap = c.objs
        /\ args = [i \in 1..Len(c.objs) |-> i]
        /\ flag = c.flag
        /\ pc = "call"
        /\ result = 0
        /\ raised = "none"
        /\ pre = c.objs
        /\ origin = 0

\* A call of a function that builds its return value and touches nothing
\* else: the value is a new object, or the exception escapes.
Finish(r) ==
    /\ pc' = "done"
    /\ pre' = heap
    /\ raised' = r.exc
    /\ heap' = IF r.exc = "none" THEN Append(heap, r.val) ELSE heap
    /\ result' = IF r.exc = "none" THEN Len(heap) + 1 ELSE 0
    /\ UNCHANGED <<fn, args, flag, origin>>

Call_validate_vector ==
    /\ pc = "call" /\ fn = "validate_vector"
    /\ Finish(validate_vector(heap[args[1]], flag))

Call_rec ==
    /\ pc = "call" /\ fn = "rec"
    /\ Finish(rec(heap[args[1]], flag))

Call_pol ==
    /\ pc = "call" /\ fn = "pol"
    /\ Finish(pol(heap[args[1]], flag))

Call_add_cartes ==
    /\ pc = "call" /\ fn = "add_cartes"
    /\ LET r == add_cartes(heap, args, flag) IN
        /\ pc' = "done"
        /\ pre' = heap
        /\ raised' = r.exc
        /\ heap' = r.heap
        /\ result' = r.ret
        /\ UNCHANGED <<fn, args, flag, origin>>

\* The caller feeds what pol returned to rec, with the same physics flag.
RoundTrip ==
    /\ pc = "done" /\ fn = "pol" /\ raised = "none"
    /\ fn' = "rec"
    /\ origin' = args[1]
    /\ args' = <<result>>
    /\ pc' = "call"
    /\ result' = 0
    /\ UNCHANGED <<heap, flag, raised, pre>>

\* The caller changes the list add_cartes returned, in place:
\* result.append(7).
MutateResult ==
    /\ pc = "done" /\ fn = "add_cartes" /\ raised = "none"
    /\ heap[result].type = "list"
    /\ heap' = [heap EXCEPT ![result].items = Append(@, 7)]
    /\ pc' = "mutated"
    /\ UNCHANGED <<fn, args, flag, result, raised, pre, origin>>

Next ==
    \/ Call_validate_vector
    \/ Call_rec
    \/ Call_pol
    \/ Call_add_cartes
    \/ RoundTrip
    \/ MutateResult

Spec == Init /\ [][Next]_vars

----------------------------------------------------------------------------
(* What the claims speak of. *)

Done(f) == pc = "done" /\ fn = f
\* the i-th operand as it was when the call started
Arg(i) == pre[args[i]]
\* the returned object
Res == heap[result]
NumArgs == Len(args)

\* a non-text sequence of length 2 or 3
IsVector(o) == o.type = "list" /\ Len(o.items) \in {2, 3}
EmptyList == List(<<>>)

\* component k of operand i as add_cartes is said to count it: a
\* 2-element operand has z = 0
Component(i, k) == IF k <= len(Arg(i)) THEN Arg(i).items[k] ELSE 0
\* the sum of component k over the operands 1 .. n
RECURSIVE SumTo(_, _)
SumTo(k, n) == IF n = 0 THEN 0 ELSE Component(n, k) + SumTo(k, n - 1)

\* a call of the original (not the chained) kind
Direct(f) == Done(f) /\ origin = 0

----------------------------------------------------------------------------
\* C1: validate_vector returns True exactly for a non-text sequence of
\* length 2 or 3; for every other input it returns False when throwerr is
\* false, and raises without returning a value when throwerr is true.
C1_ValidateContract ==
    Done("validate_vector") =>
        IF IsVector(Arg(1))
        THEN raised = "none" /\ Res = PyTrue
        ELSE IF flag
             THEN raised # "none" /\ result = 0
             ELSE raised = "none" /\ Res = PyFalse

\* a 2-character text string was rejected by an exception
C1_Witness ==
    /\ Done("validate_vector") /\ Arg(1) = Str(2) /\ flag
    /\ raised = "TypeError"

\* C2: a call of add_cartes with one or more valid integer vectors, all of
\* the first one's length or with fixdim, returns a list of the first
\* operand's length holding the sums of x, of y and, when that length is 3,
\* of the z of the 3-element operands; a single operand is returned as is.
AddSucceeds ==
    /\ NumArgs >= 1
    /\ \A i \in 1..NumArgs : IsVector(Arg(i))
    /\ flag \/ \A i \in 1..NumArgs : len(Arg(i)) = len(Arg(1))

C2_AddSums ==
    (Done("add_cartes") /\ AddSucceeds) =>
        /\ raised = "none"
        /\ len(Res) = len(Arg(1))
        /\ Res.items[1] = SumTo(1, NumArgs)
        /\ Res.items[2] = SumTo(2, NumArgs)
        /\ len(Arg(1)) = 3 => Res.items[3] = SumTo(3, NumArgs)
        /\ NumArgs = 1 => Res = Arg(1)

\* a 3-element base, then a 2-element and a 3-element operand, with fixdim
C2_Witness ==
    /\ Done("add_cartes") /\ flag /\ NumArgs = 3
    /\ len(Arg(1)) = 3 /\ len(Arg(2)) = 2 /\ len(Arg(3)) = 3
    /\ IsVector(Arg(1)) /\ IsVector(Arg(2)) /\ IsVector(Arg(3))
    /\ Res.items[3] = Arg(1).items[3] + Arg(3).items[3]
    /\ Res.items[3] # 0

\* C3: with one or more integer operands, add_cartes returns the empty
\* list if and only if some operand fails validate_vector, or fixdim is
\* false and some operand's length differs from the first operand's; never
\* a partial sum.
C3_EmptyIffFailure ==
    (Done("add_cartes") /\ NumArgs >= 1) =>
        /\ raised = "none"
        /\ (Res = EmptyList) <=> ~AddSucceeds

\* two operands were accumulated before a third one broke the call
C3_Witness ==
    /\ Done("add_cartes") /\ NumArgs = 3 /\ ~flag
    /\ IsVector(Arg(1)) /\ IsVector(Arg(2)) /\ len(Arg(1)) = len(Arg(2))
    /\ IsVector(Arg(3)) /\ len(Arg(3)) # len(Arg(1))
    /\ raised = "none" /\ Res = EmptyList

\* C4: no exception escapes add_cartes, whatever the argument list.
C4_NeverRaises == Done("add_cartes") => raised = "none"

\* C5: for an input that fails validate_vector, rec and pol return the
\* empty list and raise nothing, whatever the physics flag.
C5_InvalidGivesEmpty ==
    ((Done("rec") \/ Done("pol")) /\ ~IsVector(Arg(1))) =>
        raised = "none" /\ Res = EmptyList

\* pol was given a 3-character text string, with physics set
C5_Witness ==
    Done("pol") /\ Arg(1) = Str(3) /\ flag /\ raised = "none" /\ Res = EmptyList

\* C6: pol raises nothing on a valid numeric vector, the 3D zero vector
\* included, and returns a list of its input's length.
C6_PolNeverRaises ==
    (Done("pol") /\ IsVector(Arg(1))) =>
        raised = "none" /\ len(Res) = len(Arg(1))

\* C7 as stated: rec((0,0)) is (0,0) and pol((0,0)) is (0,90), exactly.
C7_ZeroRadiusAsStated ==
    /\ (Direct("rec") /\ Arg(1) = List(<<0, 0>>)) =>
            raised = "none" /\ Res = List(<<0, 0>>)
    /\ (Direct("pol") /\ Arg(1) = List(<<0, 0>>)) =>
            raised = "none" /\ Res = List(<<0, Deg90>>)

\* C7 amended: rec((0,0)) is (0,0) and pol((0,0)) is (0,-90), exactly, for
\* either value of the physics flag.
C7_ZeroRadius ==
    /\ (Direct("rec") /\ Arg(1) = List(<<0, 0>>)) =>
            raised = "none" /\ Res = List(<<0, 0>>)
    /\ (Direct("pol") /\ Arg(1) = List(<<0, 0>>)) =>
            raised = "none" /\ Res = List(<<0, -Deg90>>)

\* pol((0,0), physics=True) has returned
C7_Witness ==
    Direct("pol") /\ Arg(1) = List(<<0, 0>>) /\ flag /\ result # 0

\* the operands hold what they held when the call started
OperandsUnchanged == \A i \in 1..NumArgs : heap[args[i]] = pre[args[i]]
\* the returned object is one of the operands
ResultIsOperand == \E i \in 1..NumArgs : args[i] = result
\* the returned object did not exist when the call started
ResultIsNew == result > Len(pre)
SingleSuccess == NumArgs = 1 /\ IsVector(Arg(1))

\* C8 as stated: add_cartes leaves every operand as it was, and returns a
\* newly constructed object that is none of the operands, so that changing
\* the result later cannot change an input.
C8_PureAsStated ==
    (fn = "add_cartes" /\ pc \in {"done", "mutated"}) =>
        /\ OperandsUnchanged
        /\ result # 0 => (ResultIsNew /\ ~ResultIsOperand)

\* C8 amended: add_cartes leaves every operand as it was during the call.
\* When it returns from a call with two or more operands, or returns after
\* a failure, the result is a newly constructed object that is none of the
\* operands, and changing it later changes no input. A successful call with
\* one operand returns that operand itself, so changing the result later
\* changes that input.
C8_Pure ==
    /\ Done("add_cartes") =>
        /\ OperandsUnchanged
        /\ result # 0 =>
            IF SingleSuccess
            THEN result = args[1]
            ELSE ResultIsNew /\ ~ResultIsOperand
    /\ (fn = "add_cartes" /\ pc = "mutated") =>
            IF SingleSuccess
            THEN heap[args[1]] # pre[args[1]]
            ELSE OperandsUnchanged

\* the caller appended to what add_cartes(v) returned, and v grew
C8_Witness ==
    /\ fn = "add_cartes" /\ pc = "mutated" /\ NumArgs = 1
    /\ len(heap[args[1]]) = len(pre[args[1]]) + 1

\* the tolerance of a comparison of modelled floats: 0.005
Tol == Scale \div 200
Close(a, b) ==
    Len(a) = Len(b) /\ \A i \in 1..Len(a) : Abs(a[i] - b[i]) <= Tol

\* the vector the round trip started from
Origin == heap[origin]
RoundTripDone == Done("rec") /\ origin # 0

\* C9: for every valid Cartesian vector v with x >= 0 and either physics
\* flag, rec(pol(v, physics), physics) equals v within tolerance.
C9_RoundTrip ==
    /\ (Direct("pol") /\ IsVector(Arg(1)) /\ Arg(1).items[1] >= 0) =>
            raised = "none"
    /\ (RoundTripDone /\ IsVector(Origin) /\ Origin.items[1] >= 0) =>
            raised = "none" /\ Close(Res.items, Origin.items)

\* The round trip does hold for every v with x >= 0 other than (0, 0, 0),
\* where pol raises instead of returning.
RoundTripNonzero ==
    /\ (Direct("pol") /\ IsVector(Arg(1)) /\ Arg(1).items[1] >= 0
            /\ Arg(1) # List(<<0, 0, 0>>)) =>
            raised = "none"
    /\ (RoundTripDone /\ IsVector(Origin) /\ Origin.items[1] >= 0) =>
            raised = "none" /\ Close(Res.items, Origin.items)

Swap23(s) == <<s[1], s[3], s[2]>>

\* C10: the physics flag only exchanges the two angles. For a valid 3D v of
\* nonzero radius, pol(v, True) is pol(v, False) with its second and third
\* components swapped, the math order being (radius, azimuth, inclination);
\* rec((r, a, b), True) is rec((r, b, a), False); for a 2D input the flag
\* changes nothing.
C10_PhysicsSwapsAngles ==
    /\ (Direct("pol") /\ IsVector(Arg(1)) /\ raised = "none") =>
            LET other == pol(Arg(1), ~flag) IN
            /\ other.exc = "none"
            /\ IF len(Arg(1)) = 3
               THEN Res.items = Swap23(other.val.items)
               ELSE Res = other.val
    /\ (Direct("pol") /\ Arg(1) = List(<<0, 0, Scale>>)) =>
            /\ raised = "none"
            /\ Res = IF flag THEN List(<<Scale, 0, -Deg90>>)
                     ELSE List(<<Scale, -Deg90, 0>>)
    /\ (Direct("rec") /\ IsVector(Arg(1))) =>
            /\ raised = "none"
            /\ IF len(Arg(1)) = 3
               THEN Res = rec(List(Swap23(Arg(1).items)), ~flag).val
               ELSE Res = rec(Arg(1), ~flag).val

\* rec with physics set was given two different angles, and the result
\* depends on which is which
C10_Witness ==
    /\ Direct("rec") /\ flag /\ len(Arg(1)) = 3
    /\ Arg(1).items[2] # Arg(1).items[3]
    /\ Res # rec(List(Swap23(Arg(1).items)), flag).val

====
